---- MODULE Spec2Model ----
(***************************************************************************)
(* CryptoNight (package cryptonight): Cache.Sum and the package-level Sum. *)
(*                                                                         *)
(* Bytes are real bytes and the 200-byte Keccak state has its real size.   *)
(* The scratchpad and the mixer's round count are scaled down (PadChunks,  *)
(* MixRounds); a scratchpad address keeps its real 21-bit value and is     *)
(* folded onto the scaled scratchpad by PadIndex.  The AES primitives are  *)
(* the AESENC-based routines of the assembly file.  Keccak and the four    *)
(* finalizer hashes live outside src/: Keccak is a stand-in mixing         *)
(* function with the interface the specification gives, a finalizer's      *)
(* digest is the uninterpreted term <<algorithm, input>>.                  *)
(***************************************************************************)
EXTENDS Integers, Sequences, FiniteSets, TLC

\* ------------------------------------------------------------------ bounds

\* 128-byte chunks of the model's scratchpad (the program: 2^21 / 128 = 16384).
PadChunks == 2

\* Iterations of the memory-hard loop in the model (the program: 524288).
MixRounds == 4

\* Largest variant selector the callers of the model pass.
MaxVariant == 2

\* The calls of Sum one concurrent worker makes.
MaxCalls == 1

\* ------------------------------------------------------- program constants

StateSize == 200
ScratchpadSize == 2097152
AddrMask == 2097136
MixIterations == 524288
ChunkSize == 128
BlockSize == 16
MinVariant1Len == 43
TweakOffset == 35
KeccakRate == 136

PadSize == PadChunks * ChunkSize

\* F(v), F(v, w): the arguments are evaluated once, then F is applied to
\* their values.
Bind(v, F(_)) == CHOOSE r \in {F(x) : x \in {v}} : TRUE
Bind2(v, w, F(_, _)) == CHOOSE r \in {F(x, y) : x \in {v}, y \in {w}} : TRUE

\* ------------------------------------------------------------- byte algebra

NibXorTable ==
  << <<  0,  1,  2,  3,  4,  5,  6,  7,  8,  9, 10, 11, 12, 13, 14, 15 >>,
     <<  1,  0,  3,  2,  5,  4,  7,  6,  9,  8, 11, 10, 13, 12, 15, 14 >>,
     <<  2,  3,  0,  1,  6,  7,  4,  5, 10, 11,  8,  9, 14, 15, 12, 13 >>,
     <<  3,  2,  1,  0,  7,  6,  5,  4, 11, 10,  9,  8, 15, 14, 13, 12 >>,
     <<  4,  5,  6,  7,  0,  1,  2,  3, 12, 13, 14, 15,  8,  9, 10, 11 >>,
     <<  5,  4,  7,  6,  1,  0,  3,  2, 13, 12, 15, 14,  9,  8, 11, 10 >>,
     <<  6,  7,  4,  5,  2,  3,  0,  1, 14, 15, 12, 13, 10, 11,  8,  9 >>,
     <<  7,  6,  5,  4,  3,  2,  1,  0, 15, 14, 13, 12, 11, 10,  9,  8 >>,
     <<  8,  9, 10, 11, 12, 13, 14, 15,  0,  1,  2,  3,  4,  5,  6,  7 >>,
     <<  9,  8, 11, 10, 13, 12, 15, 14,  1,  0,  3,  2,  5,  4,  7,  6 >>,
     << 10, 11,  8,  9, 14, 15, 12, 13,  2,  3,  0,  1,  6,  7,  4,  5 >>,
     << 11, 10,  9,  8, 15, 14, 13, 12,  3,  2,  1,  0,  7,  6,  5,  4 >>,
     << 12, 13, 14, 15,  8,  9, 10, 11,  4,  5,  6,  7,  0,  1,  2,  3 >>,
     << 13, 12, 15, 14,  9,  8, 11, 10,  5,  4,  7,  6,  1,  0,  3,  2 >>,
     << 14, 15, 12, 13, 10, 11,  8,  9,  6,  7,  4,  5,  2,  3,  0,  1 >>,
     << 15, 14, 13, 12, 11, 10,  9,  8,  7,  6,  5,  4,  3,  2,  1,  0 >> >>

\* a ^ b on uint8.
XorTable ==
  [a \in 0 .. 255 |->
     [b \in 0 .. 255 |->
        16 * NibXorTable[(a \div 16) + 1][(b \div 16) + 1]
           + NibXorTable[(a % 16) + 1][(b % 16) + 1]]]

XOR(a, b) == XorTable[a][b]

\* a & b and a | b on uint8: a + b = (a ^ b) + 2 * (a & b).
AND(a, b) == Bind2(a, b, LAMBDA x, y : (x + y - XOR(x, y)) \div 2)
OR(a, b) == Bind2(a, b, LAMBDA x, y : x + y - AND(x, y))

\* Byte k of an unsigned integer.
ByteOf(x, k) == (x \div (256 ^ k)) % 256

\* x & y and x | y on unsigned integers below 2^24, byte by byte.
BitAnd(x, y) ==
  AND(ByteOf(x, 0), ByteOf(y, 0)) + 256 * AND(ByteOf(x, 1), ByteOf(y, 1))
    + 65536 * AND(ByteOf(x, 2), ByteOf(y, 2))

BitOr(x, y) ==
  OR(ByteOf(x, 0), ByteOf(y, 0)) + 256 * OR(ByteOf(x, 1), ByteOf(y, 1))
    + 65536 * OR(ByteOf(x, 2), ByteOf(y, 2))

\* ^t on uint8.
Not8(t) == 255 - t

\* t << n on uint8.
Shl8(t, n) == (t * (2 ^ n)) % 256

\* t >> n on uint8.
Shr8(t, n) == t \div (2 ^ n)

\* A byte string is a function from 0 .. n-1 to bytes, indexed as in Go.
Len0(s) == Cardinality(DOMAIN s)

Zeros(n) == [i \in 0 .. n - 1 |-> 0]

\* s[lo:hi]
Slice(s, lo, hi) == Bind2(s, lo, LAMBDA t, l : [i \in 0 .. hi - l - 1 |-> t[l + i]])

\* copy(s[at:], src)
Patch(s, at, src) ==
  Bind2(s, src, LAMBDA t, u :
    Bind2(at, Len0(u), LAMBDA l, n :
      [i \in DOMAIN t |-> IF i >= l /\ i < l + n THEN u[i - l] ELSE t[i]]))

\* ---------------------------------------------------------------------- AES

SBoxTable ==
  <<  99, 124, 119, 123, 242, 107, 111, 197,  48,   1, 103,  43, 254, 215, 171, 118,
     202, 130, 201, 125, 250,  89,  71, 240, 173, 212, 162, 175, 156, 164, 114, 192,
     183, 253, 147,  38,  54,  63, 247, 204,  52, 165, 229, 241, 113, 216,  49,  21,
       4, 199,  35, 195,  24, 150,   5, 154,   7,  18, 128, 226, 235,  39, 178, 117,
       9, 131,  44,  26,  27, 110,  90, 160,  82,  59, 214, 179,  41, 227,  47, 132,
      83, 209,   0, 237,  32, 252, 177,  91, 106, 203, 190,  57,  74,  76,  88, 207,
     208, 239, 170, 251,  67,  77,  51, 133,  69, 249,   2, 127,  80,  60, 159, 168,
      81, 163,  64, 143, 146, 157,  56, 245, 188, 182, 218,  33,  16, 255, 243, 210,
     205,  12,  19, 236,  95, 151,  68,  23, 196, 167, 126,  61, 100,  93,  25, 115,
      96, 129,  79, 220,  34,  42, 144, 136,  70, 238, 184,  20, 222,  94,  11, 219,
     224,  50,  58,  10,  73,   6,  36,  92, 194, 211, 172,  98, 145, 149, 228, 121,
     231, 200,  55, 109, 141, 213,  78, 169, 108,  86, 244, 234, 101, 122, 174,   8,
     186, 120,  37,  46,  28, 166, 180, 198, 232, 221, 116,  31,  75, 189, 139, 138,
     112,  62, 181, 102,  72,   3, 246,  14,  97,  53,  87, 185, 134, 193,  29, 158,
     225, 248, 152,  17, 105, 217, 142, 148, 155,  30, 135, 233, 206,  85,  40, 223,
     140, 161, 137,  13, 191, 230,  66, 104,  65, 153,  45,  15, 176,  84, 187,  22 >>

Mul2Table ==
  <<   0,   2,   4,   6,   8,  10,  12,  14,  16,  18,  20,  22,  24,  26,  28,  30,
      32,  34,  36,  38,  40,  42,  44,  46,  48,  50,  52,  54,  56,  58,  60,  62,
      64,  66,  68,  70,  72,  74,  76,  78,  80,  82,  84,  86,  88,  90,  92,  94,
      96,  98, 100, 102, 104, 106, 108, 110, 112, 114, 116, 118, 120, 122, 124, 126,
     128, 130, 132, 134, 136, 138, 140, 142, 144, 146, 148, 150, 152, 154, 156, 158,
     160, 162, 164, 166, 168, 170, 172, 174, 176, 178, 180, 182, 184, 186, 188, 190,
     192, 194, 196, 198, 200, 202, 204, 206, 208, 210, 212, 214, 216, 218, 220, 222,
     224, 226, 228, 230, 232, 234, 236, 238, 240, 242, 244, 246, 248, 250, 252, 254,
      27,  25,  31,  29,  19,  17,  23,  21,  11,   9,  15,  13,   3,   1,   7,   5,
      59,  57,  63,  61,  51,  49,  55,  53,  43,  41,  47,  45,  35,  33,  39,  37,
      91,  89,  95,  93,  83,  81,  87,  85,  75,  73,  79,  77,  67,  65,  71,  69,
     123, 121, 127, 125, 115, 113, 119, 117, 107, 105, 111, 109,  99,  97, 103, 101,
     155, 153, 159, 157, 147, 145, 151, 149, 139, 137, 143, 141, 131, 129, 135, 133,
     187, 185, 191, 189, 179, 177, 183, 181, 171, 169, 175, 173, 163, 161, 167, 165,
     219, 217, 223, 221, 211, 209, 215, 213, 203, 201, 207, 205, 195, 193, 199, 197,
     251, 249, 255, 253, 243, 241, 247, 245, 235, 233, 239, 237, 227, 225, 231, 229 >>

SBox(x) == SBoxTable[x + 1]

\* Multiplication by 2 and by 3 in GF(2^8), as MixColumns uses them.
Mul2(x) == Mul2Table[x + 1]
Mul3(x) == Bind(x, LAMBDA y : XOR(Mul2Table[y + 1], y))

\* One byte of MixColumns(SubBytes(ShiftRows(s))): row r of column col.
RoundByte(s, col, r) ==
  XOR(XOR(Mul2(SBox(s[(r % 4) + 4 * ((col + r) % 4)])),
          Mul3(SBox(s[((r + 1) % 4) + 4 * ((col + r + 1) % 4)]))),
      XOR(SBox(s[((r + 2) % 4) + 4 * ((col + r + 2) % 4)]),
          SBox(s[((r + 3) % 4) + 4 * ((col + r + 3) % 4)])))

\* AESENC key, block: one full AES encryption round of a 16-byte block.
AESENC(block, key) ==
  Bind2(block, key, LAMBDA s, k :
    [n \in 0 .. 15 |-> XOR(RoundByte(s, n \div 4, n % 4), k[n])])

\* CnSingleRoundAsm: one AESENC of src[0:16) under the 16-byte round key.
CnSingleRound(src, rkey) == AESENC(Slice(src, 0, BlockSize), rkey)

\* Round key n of rkeys (MOVOU 16*n(CX), X1).
RoundKey(rkeys, n) == Slice(rkeys, 16 * n, 16 * n + 16)

\* CnRoundsAsm: ten AESENC, keyed by round keys 0 .. 9 in ascending order.
CnRounds(src, rkeys) ==
  Bind2(Slice(src, 0, BlockSize), rkeys, LAMBDA x0, rk :
    AESENC(AESENC(AESENC(AESENC(AESENC(AESENC(AESENC(AESENC(AESENC(AESENC(
      x0, RoundKey(rk, 0)), RoundKey(rk, 1)), RoundKey(rk, 2)), RoundKey(rk, 3)),
      RoundKey(rk, 4)), RoundKey(rk, 5)), RoundKey(rk, 6)), RoundKey(rk, 7)),
      RoundKey(rk, 8)), RoundKey(rk, 9)))

\* SHUFPS $0x10 / PXOR / SHUFPS $0x8c / PXOR: word j of the result is the
\* XOR of the words 0 .. j of x.
PrefixXor(x) ==
  Bind(x, LAMBDA y :
    [n \in 0 .. 15 |->
       IF n < 4 THEN y[n]
       ELSE IF n < 8 THEN XOR(y[n], y[n - 4])
       ELSE IF n < 12 THEN XOR(XOR(y[n], y[n - 4]), y[n - 8])
       ELSE XOR(XOR(y[n], y[n - 4]), XOR(y[n - 8], y[n - 12]))])

\* _expand_key_256a after AESKEYGENASSIST $rcon, X2, X1: PSHUFD $0xff takes
\* RotWord(SubWord(word 3 of x2)) ^ rcon, which is XORed into every word.
ExpandKey256a(x0, x2, rcon) ==
  Bind2(PrefixXor(x0), x2, LAMBDA p, q :
    [n \in 0 .. 15 |->
       XOR(p[n], XOR(SBox(q[12 + ((n + 1) % 4)]), IF n % 4 = 0 THEN rcon ELSE 0))])

\* _expand_key_256b after AESKEYGENASSIST $rcon, X0, X1: PSHUFD $0xaa takes
\* SubWord(word 3 of x0), which is XORed into every word.
ExpandKey256b(x2, x0) ==
  Bind2(PrefixXor(x2), x0, LAMBDA p, q :
    [n \in 0 .. 15 |-> XOR(p[n], SBox(q[12 + (n % 4)]))])

\* Round keys n .. 9, given the round keys n - 2 and n - 1 (n even).
RECURSIVE KeysFrom(_, _, _)
KeysFrom(x0, x2, n) ==
  IF n = 10 THEN <<>>
  ELSE Bind(ExpandKey256a(x0, x2, 2 ^ ((n - 2) \div 2)), LAMBDA y0 :
         Bind(ExpandKey256b(x2, y0), LAMBDA y2 :
           <<y0, y2>> \o KeysFrom(y0, y2, n + 2)))

\* CnExpandKeyAsm: the round keys CnRounds reads, 10 keys of 16 bytes (the
\* routine stores an eleventh, which CnRounds never loads).
CnExpandKey(key) ==
  Bind2(Slice(key, 0, 16), Slice(key, 16, 32), LAMBDA x0, x2 :
    Bind(<<x0, x2>> \o KeysFrom(x0, x2, 2), LAMBDA ks :
      [n \in 0 .. 159 |-> ks[(n \div 16) + 1][n % 16]]))

\* ------------------------------------------------------- helpers of Sum

\* xorWords(dst, a, b): the bytes it stores into dst[0:len(b)).
xorWords(a, b) == Bind2(a, b, LAMBDA x, y : [k \in DOMAIN y |-> XOR(x[k], y[k])])

\* The 64-bit lane r64[k] of a register, as its 8 little-endian bytes.
Lane(r, k) == Slice(r, 8 * k, 8 * k + 8)

\* The register whose lanes are lane0 (r64[0]) and lane1 (r64[1]).
Lanes(lane0, lane1) ==
  Bind2(lane0, lane1, LAMBDA x, y : [k \in 0 .. 15 |-> IF k < 8 THEN x[k] ELSE y[k - 8]])

\* x[i] * y[k - i] when both bytes exist, else 0.
Term(x, y, k, i) == IF k - i >= 0 /\ k - i <= 7 THEN x[i] * y[k - i] ELSE 0

\* The sum of the byte products x[i] * y[j] with i + j = k.
ColSum(x, y, k) ==
  Term(x, y, k, 0) + Term(x, y, k, 1) + Term(x, y, k, 2) + Term(x, y, k, 3)
    + Term(x, y, k, 4) + Term(x, y, k, 5) + Term(x, y, k, 6) + Term(x, y, k, 7)

\* Bytes k .. 15 of x * y, two bytes at a time, carry being the carry into
\* byte k.
RECURSIVE MulFrom(_, _, _, _)
MulFrom(x, y, k, carry) ==
  IF k = 16 THEN <<>>
  ELSE Bind(ColSum(x, y, k) + 256 * ColSum(x, y, k + 1) + carry, LAMBDA t :
         <<t % 256, (t \div 256) % 256>> \o MulFrom(x, y, k + 2, t \div 65536))

\* byteMul(product, x, y): the 128-bit product of two uint64, its high half
\* in product[0] and its low half in product[1].
byteMul(x, y) ==
  Bind2(x, y, LAMBDA u, v :
    Bind(MulFrom(u, v, 0, 0), LAMBDA p :
      [k \in 0 .. 15 |-> IF k < 8 THEN p[k + 9] ELSE p[k - 7]]))

\* The carry into byte k of x + y.
RECURSIVE CarryInto(_, _, _)
CarryInto(x, y, k) ==
  IF k = 0 THEN 0 ELSE (x[k - 1] + y[k - 1] + CarryInto(x, y, k - 1)) \div 256

\* x += y on uint64: the carry out of bit 63 is dropped.
Add64(x, y) ==
  Bind2(x, y, LAMBDA u, v :
    [k \in 0 .. 7 |-> (u[k] + v[k] + CarryInto(u, v, k)) % 256])

\* a += product as one 128-bit addition: the carry out of lane 0 enters
\* lane 1.
byteAddCarry(a, product) ==
  Bind2(a, product, LAMBDA u, v :
    [k \in 0 .. 15 |-> (u[k] + v[k] + CarryInto(u, v, k)) % 256])

\* a64[0] += product[0]; a64[1] += product[1]
byteAdd(a, product) ==
  Bind2(Add64(Lane(a, 0), Lane(product, 0)), Add64(Lane(a, 1), Lane(product, 1)),
        LAMBDA lane0, lane1 : Lanes(lane0, lane1))

\* TO_ADDR with the mask 0x3ffff0, one bit wider.
TO_ADDR_Wide(a) ==
  Bind(BitOr(BitOr(a[2] * 65536, a[1] * 256), a[0]), LAMBDA x : BitAnd(x, 4194288))

\* TO_ADDR(a): (uint32(a[2])<<16 | uint32(a[1])<<8 | uint32(a[0])) & 0x1ffff0
TO_ADDR(a) ==
  Bind(BitOr(BitOr(a[2] * 65536, a[1] * 256), a[0]), LAMBDA x : BitAnd(x, AddrMask))

\* The model's scratchpad holds PadSize bytes: a scratchpad address of the
\* program is folded onto it.
PadIndex(addr) == addr % PadSize

\* t = ((^t)&1)<<4 | (((^t)&1)<<4&t)<<1 | (t&32)>>1
TweakByte(t) ==
  Bind(t, LAMBDA u :
    OR(OR(Shl8(AND(Not8(u), 1), 4), Shl8(AND(Shl8(AND(Not8(u), 1), 4), u), 1)),
       Shr8(AND(u, 32), 1)))

\* ------------------------------------------------ Keccak and the finalizers

\* The Keccak-f[1600] permutation, by a stand-in: three rounds of a byte
\* substitution over neighbouring bytes.
KeccakRound(st, r) ==
  Bind(st, LAMBDA s :
    [k \in 0 .. StateSize - 1 |->
       SBox(XOR(XOR(s[k], s[(k + 1) % StateSize]),
                XOR(s[(k + 67) % StateSize], (k + r) % 256)))])

Keccak1600Permute(st) == KeccakRound(KeccakRound(KeccakRound(st, 0), 1), 2)

\* msg with the Keccak padding (0x01 .. 0x80) up to a multiple of the rate.
KeccakPad(msg) ==
  Bind2(msg, ((Len0(msg) \div KeccakRate) + 1) * KeccakRate, LAMBDA s, m :
    [k \in 0 .. m - 1 |->
       IF k \in DOMAIN s THEN s[k]
       ELSE XOR(IF k = Len0(s) THEN 1 ELSE 0, IF k = m - 1 THEN 128 ELSE 0)])

\* The sponge state after the blocks of padded from offset at on are absorbed.
RECURSIVE AbsorbFrom(_, _, _)
AbsorbFrom(st, padded, at) ==
  IF at >= Len0(padded) THEN st
  ELSE Bind(Keccak1600Permute(
              Bind(st, LAMBDA s :
                [k \in 0 .. StateSize - 1 |->
                   IF k < KeccakRate THEN XOR(s[k], padded[at + k]) ELSE s[k]])),
            LAMBDA next : AbsorbFrom(next, padded, at + KeccakRate))

\* Keccak1600State(&st, data): st becomes the sponge state after absorbing
\* data into the all-zero state; what st held before is not read.
Keccak1600State(msg) ==
  Bind(KeccakPad(msg), LAMBDA padded : AbsorbFrom(Zeros(StateSize), padded, 0))

\* h.Write(state); h.Sum(nil) for the hash named alg: an uninterpreted term.
Hash256(alg, input) == <<alg, input>>

\* switch cache.finalState[0] & 0x03
Finalizer(st) ==
  Bind(BitAnd(st[0], 3), LAMBDA sel :
    IF sel = 0 THEN "blake256"
    ELSE IF sel = 1 THEN "groestl256"
    ELSE IF sel = 2 THEN "jh256"
    ELSE "skein256")

\* ------------------------------------------------------------------ inputs

FromSeq(s) == [k \in 0 .. Len(s) - 1 |-> s[k + 1]]

\* "Hello, " and two three-byte UTF-8 runes: 13 bytes (ExampleSum).
HelloBytes ==
  FromSeq(<< 72, 101, 108, 108, 111,  44,  32, 228, 184, 150, 231, 149, 140 >>)

\* "variant 1 requires at least 43 bytes of input.": 46 bytes (ExampleSum).
Variant1Bytes ==
  FromSeq(<< 118,  97, 114, 105,  97, 110, 116,  32,  49,  32, 114, 101, 113, 117, 105, 114,
             101, 115,  32,  97, 116,  32, 108, 101,  97, 115, 116,  32,  52,  51,  32,  98,
             121, 116, 101, 115,  32, 111, 102,  32, 105, 110, 112, 117, 116,  46 >>)

\* A []byte: len(data), cap(data) and the cap(data) bytes of its backing array.
MkData(mem, len) == [len |-> len, cap |-> Len0(mem), mem |-> mem]

\* data[0:len(data)), the bytes a callee ranging over data sees.
DataBytes(data) == Slice(data.mem, 0, data.len)

\* The messages callers pass.  The last is a 13-byte message read into a
\* 46-byte buffer that held the variant-1 text before: len 13, cap 46.
Messages ==
  { MkData(HelloBytes, 13),
    MkData(Variant1Bytes, 46),
    MkData(Patch(Variant1Bytes, 0, HelloBytes), 13) }

Variants == 0 .. MaxVariant

\* ------------------------------------------------------------------- state

Workers == {1}
ConcWorkers == {1, 2}

VARIABLES
  frames,   \* per worker: the frame of its call of Sum (pc, arguments, locals)
  caches,   \* the allocated Cache values, by identity
  pool,     \* cachePool: the identities of the Caches put into the sync.Pool
  alone     \* per worker: the same call as new(Cache).Sum(data, variant) with
            \* no other goroutine running, stepped along with the worker's

vars == <<frames, caches, pool, alone>>

\* new(Cache): the zero value.
ZeroCache == [finalState |-> Zeros(StateSize), scratchpad |-> Zeros(PadSize)]

NoDigest == <<>>
NoData == MkData(Zeros(0), 0)
Zero16 == Zeros(BlockSize)

\* A worker outside Sum; held is the Cache it has checked out of the pool.
\* reused records whether the Cache of the call held anything but zeros when
\* the call began; calls counts the worker's calls of Sum, up to MaxCalls;
\* nInit, nMix and nComp count the passes of the three loops.
IdleFrame(held, calls) ==
  [ pc |-> "idle", data |-> NoData, variant |-> 0, cache |-> 0, held |-> held,
    reused |-> FALSE, calls |-> calls,
    tweak |-> Zeros(8), rkeys |-> Zeros(160),
    heap |-> Zeros(ChunkSize), blocks |-> [base |-> "heap", off |-> 0],
    a |-> Zero16, b |-> Zero16, c |-> Zero16, d |-> Zero16, product |-> Zero16,
    addr |-> 0, i |-> 0, j |-> 0, digest |-> NoDigest,
    nInit |-> 0, nMix |-> 0, nComp |-> 0 ]

\* The frame of worker w on entry to cache.Sum(data, variant), cache being
\* caches[id].
EntryFrame(w, data, variant, id, held) ==
  [IdleFrame(held, IF frames[w].calls < MaxCalls THEN frames[w].calls + 1 ELSE MaxCalls)
     EXCEPT !.pc = "begin", !.data = data, !.variant = variant, !.cache = id,
            !.reused = id \in DOMAIN caches /\ caches[id] # ZeroCache]

\* The identity of the Cache worker w owns.
OwnCache(w) == w

\* The package-level Sum working on one package-level Cache, the same for
\* every caller.
TempCacheShared(w) == 10

\* The identity of the new(Cache) a package-level Sum of worker w allocates.
TempCache(w) == 10 + w

\* The identity of the k-th Cache cachePool.New allocates.
PoolCache(k) == 20 + k
PoolCaches == {PoolCache(k) : k \in ConcWorkers}

\* ------------------------------------------------------ the steps of Sum
\* Each step maps the frame f and the Cache c the frame works on to the pair
\* [f, c] after the step.

\* The 128 bytes the slice blocks refers to.
Deref(f, c, ref) ==
  IF ref.base = "heap" THEN f.heap
  ELSE IF ref.base = "state" THEN Slice(c.finalState, ref.off, ref.off + ChunkSize)
  ELSE Slice(c.scratchpad, ref.off, ref.off + ChunkSize)

\* [f, c] after bytes are stored through the slice ref.
Store(f, c, ref, bytes) ==
  IF ref.base = "heap" THEN [f |-> [f EXCEPT !.heap = bytes], c |-> c]
  ELSE IF ref.base = "state"
    THEN [f |-> f, c |-> [c EXCEPT !.finalState = Patch(@, ref.off, bytes)]]
  ELSE [f |-> f, c |-> [c EXCEPT !.scratchpad = Patch(@, ref.off, bytes)]]

\* for i := 0; i < 128; i += 16 { aes.CnRounds(chunk[i:], chunk[i:], rkeys) }
EncryptChunk(chunk, rkeys) ==
  Bind2(chunk, rkeys, LAMBDA ch, rk :
    Bind([s \in 0 .. 7 |->
            CnRounds(Slice(ch, BlockSize * s, BlockSize * s + BlockSize), rk)],
         LAMBDA enc : [k \in 0 .. ChunkSize - 1 |-> enc[k \div BlockSize][k % BlockSize]]))

\* Keccak absorb, then the variant-1 tweak: data[35:43] is in range when
\* 43 <= cap(data), and panics otherwise.
DoBegin(f, c) ==
  Bind(Keccak1600State(DataBytes(f.data)), LAMBDA st :
    IF f.variant = 1 /\ MinVariant1Len > f.data.cap
      THEN [f |-> [f EXCEPT !.pc = "panicked"], c |-> [c EXCEPT !.finalState = st]]
    ELSE [f |-> [f EXCEPT
                   !.pc = "expand",
                   !.tweak = IF f.variant = 1
                               THEN xorWords(Slice(st, 192, StateSize),
                                             Slice(f.data.mem, TweakOffset, MinVariant1Len))
                             ELSE Zeros(8)],
          c |-> [c EXCEPT !.finalState = st]])

\* blocks := cache.finalState[64:192]: the initializer working on the State
\* itself instead of a copy.
InitBlocksInPlace(f, c) ==
  [f EXCEPT !.blocks = [base |-> "state", off |-> 64]]

\* blocks := make([]byte, 128); copy(blocks, cache.finalState[64:192])
InitBlocks(f, c) ==
  [f EXCEPT !.heap = Slice(c.finalState, 64, 192), !.blocks = [base |-> "heap", off |-> 0]]

\* The round keys of the initializer and its private copy of State[64:192).
DoExpand(f, c) ==
  [f |-> [InitBlocks(f, c) EXCEPT !.pc = "init", !.j = 0,
                                  !.rkeys = CnExpandKey(Slice(c.finalState, 0, 32))],
   c |-> c]

\* The initializer with a loop that stops after its first pass: every chunk
\* of the scratchpad but the first keeps the bytes it held before.
DoInitChunkOnce(f, c) ==
  Bind(EncryptChunk(Deref(f, c, f.blocks), f.rkeys), LAMBDA enc :
    Bind(Store(f, c, f.blocks, enc), LAMBDA s :
      [f |-> [s.f EXCEPT !.j = f.j + ChunkSize, !.nInit = @ + 1, !.pc = "mixsetup"],
       c |-> [s.c EXCEPT !.scratchpad = Patch(@, f.j, enc)]]))

\* One pass of the initializer's loop: encrypt blocks in place, copy it to
\* scratchpad[j:], j += 128.
DoInitChunk(f, c) ==
  Bind(EncryptChunk(Deref(f, c, f.blocks), f.rkeys), LAMBDA enc :
    Bind(Store(f, c, f.blocks, enc), LAMBDA s :
      [f |-> [s.f EXCEPT !.j = f.j + ChunkSize, !.nInit = @ + 1,
                         !.pc = IF f.j + ChunkSize < PadSize THEN "init" ELSE "mixsetup"],
       c |-> [s.c EXCEPT !.scratchpad = Patch(@, f.j, enc)]]))

\* The registers a and b of the memory-hard loop.
DoMixSetup(f, c) ==
  [f |-> [f EXCEPT
            !.a = xorWords(Slice(c.finalState, 0, 16), Slice(c.finalState, 32, 48)),
            !.b = xorWords(Slice(c.finalState, 16, 32), Slice(c.finalState, 48, 64)),
            !.i = 0,
            !.pc = IF 0 < MixRounds THEN "mixA" ELSE "compsetup"],
   c |-> c]

\* The tweaks applied for every variant from 1 up.
TweakedFrom1(variant) == variant >= 1

\* if variant == 1: the tweak of scratchpad[addr+11] and of scratchpad[addr+8+i]
Tweaked(variant) == variant = 1

\* First third of an iteration: c = AESENC(scratchpad[addr], a), the cell
\* becomes b ^ c, b = c, and variant 1 tweaks the cell's byte 11.
DoMixA(f, c) ==
  Bind2(TO_ADDR(f.a), PadIndex(TO_ADDR(f.a)), LAMBDA addr, at :
    Bind(CnSingleRound(Slice(c.scratchpad, at, at + BlockSize), f.a), LAMBDA c8 :
      Bind(Patch(c.scratchpad, at, xorWords(f.b, c8)), LAMBDA pad1 :
        [f |-> [f EXCEPT !.addr = addr, !.c = c8, !.b = c8, !.pc = "mixB"],
         c |-> [c EXCEPT !.scratchpad =
                  IF Tweaked(f.variant)
                    THEN [pad1 EXCEPT ![at + 11] = XOR(@, TweakByte(@))]
                  ELSE pad1]])))

\* Second third: d = scratchpad[TO_ADDR(c)], product = c64[0] * d64[0],
\* a += product.
DoMixB(f, c) ==
  Bind2(TO_ADDR(f.c), PadIndex(TO_ADDR(f.c)), LAMBDA addr, at :
    Bind(Slice(c.scratchpad, at, at + BlockSize), LAMBDA d8 :
      Bind(byteMul(Lane(f.c, 0), Lane(d8, 0)), LAMBDA prod :
        [f |-> [f EXCEPT !.addr = addr, !.d = d8, !.product = prod,
                         !.a = byteAdd(f.a, prod), !.pc = "mixC"],
         c |-> c])))

\* The last third with the tweak loop counting in the iteration's own i:
\* the loop leaves it at 8.
DoMixCSharedI(f, c) ==
  Bind2(PadIndex(f.addr), Patch(c.scratchpad, PadIndex(f.addr), f.a), LAMBDA at, pad1 :
    Bind(IF Tweaked(f.variant) THEN 8 ELSE f.i, LAMBDA i :
      [f |-> [f EXCEPT !.a = xorWords(f.a, f.d), !.i = i + 1, !.nMix = @ + 1,
                       !.pc = IF i + 1 < MixRounds THEN "mixA" ELSE "compsetup"],
       c |-> [c EXCEPT !.scratchpad =
                IF Tweaked(f.variant)
                  THEN [k \in DOMAIN pad1 |->
                          IF k >= at + 8 /\ k < at + 16
                            THEN XOR(pad1[k], f.tweak[k - at - 8])
                          ELSE pad1[k]]
                ELSE pad1]]))

\* Last third: the cell at addr becomes a, a ^= d, variant 1 XORs the tweak
\* into the cell's bytes 8 .. 15 (counting with an i of its own scope); then
\* the outer i++.
DoMixC(f, c) ==
  Bind2(PadIndex(f.addr), Patch(c.scratchpad, PadIndex(f.addr), f.a), LAMBDA at, pad1 :
    [f |-> [f EXCEPT !.a = xorWords(f.a, f.d), !.i = f.i + 1, !.nMix = @ + 1,
                     !.pc = IF f.i + 1 < MixRounds THEN "mixA" ELSE "compsetup"],
     c |-> [c EXCEPT !.scratchpad =
              IF Tweaked(f.variant)
                THEN [k \in DOMAIN pad1 |->
                        IF k >= at + 8 /\ k < at + 16
                          THEN XOR(pad1[k], f.tweak[k - at - 8])
                        ELSE pad1[k]]
              ELSE pad1]])

\* The compressor keyed as the initializer is, from State[0:32).
CompressKeyLow(st) == Slice(st, 0, 32)

\* aesKey = cache.finalState[32:64]
CompressKey(st) == Slice(st, 32, 64)

\* blocks = cache.finalState[64:192]: a slice of the State, not a copy.
CompressSeed == [base |-> "state", off |-> 64]

\* The round keys and the seed of the result compressor.
DoCompSetup(f, c) ==
  [f |-> [f EXCEPT !.rkeys = CnExpandKey(CompressKey(c.finalState)),
                   !.blocks = CompressSeed, !.j = 0, !.pc = "comp"],
   c |-> c]

\* blocks = cache.scratchpad[j : j+128]
CarryBlocks(j) == [base |-> "pad", off |-> j]

\* One pass of the compressor's loop: XOR blocks into chunk j, encrypt the
\* chunk in place, let blocks refer to it, j += 128.
DoCompChunk(f, c) ==
  Bind(EncryptChunk(xorWords(Slice(c.scratchpad, f.j, f.j + ChunkSize),
                             Deref(f, c, f.blocks)), f.rkeys),
       LAMBDA enc :
    [f |-> [f EXCEPT !.blocks = CarryBlocks(f.j), !.j = f.j + ChunkSize, !.nComp = @ + 1,
                     !.pc = IF f.j + ChunkSize < PadSize THEN "comp" ELSE "copy"],
     c |-> [c EXCEPT !.scratchpad = Patch(@, f.j, enc)]])

\* copy(cache.finalState[64:192], blocks)
DoCopy(f, c) ==
  [f |-> [f EXCEPT !.pc = "finish"],
   c |-> [c EXCEPT !.finalState = Patch(@, 64, Deref(f, c, f.blocks))]]

\* The finalizer chosen by byte 0 of the State as it is before the
\* permutation.
DoFinishEarlySelect(f, c) ==
  Bind(Keccak1600Permute(c.finalState), LAMBDA permuted :
    [f |-> [f EXCEPT !.digest = Hash256(Finalizer(c.finalState), permuted), !.pc = "done"],
     c |-> [c EXCEPT !.finalState = permuted]])

\* The Keccak permutation of the State; the finalizer chosen by the permuted
\* State's byte 0 hashes the permuted State.
DoFinish(f, c) ==
  Bind(Keccak1600Permute(c.finalState), LAMBDA permuted :
    [f |-> [f EXCEPT !.digest = Hash256(Finalizer(permuted), permuted), !.pc = "done"],
     c |-> [c EXCEPT !.finalState = permuted]])

\* The step Sum takes at f.pc.
SumStep(f, c) ==
  CASE f.pc = "begin" -> DoBegin(f, c)
    [] f.pc = "expand" -> DoExpand(f, c)
    [] f.pc = "init" -> DoInitChunk(f, c)
    [] f.pc = "mixsetup" -> DoMixSetup(f, c)
    [] f.pc = "mixA" -> DoMixA(f, c)
    [] f.pc = "mixB" -> DoMixB(f, c)
    [] f.pc = "mixC" -> DoMixC(f, c)
    [] f.pc = "compsetup" -> DoCompSetup(f, c)
    [] f.pc = "comp" -> DoCompChunk(f, c)
    [] f.pc = "copy" -> DoCopy(f, c)
    [] f.pc = "finish" -> DoFinish(f, c)

Running == {"begin", "expand", "init", "mixsetup", "mixA", "mixB", "mixC",
            "compsetup", "comp", "copy", "finish"}

\* ----------------------------------------------------------------- actions

\* The call Sum(data, variant) as it starts when run alone on a new(Cache).
AloneEntry(data, variant) ==
  [f |-> [IdleFrame(0, 0) EXCEPT !.pc = "begin", !.data = data, !.variant = variant],
   c |-> ZeroCache]

AloneIdle == [f |-> IdleFrame(0, 0), c |-> ZeroCache]

\* Worker w's Sum takes its step at pc, on the Cache its frame names.
Take(w, pc) ==
  /\ frames[w].pc = pc
  /\ \E r \in {SumStep(frames[w], caches[frames[w].cache])} :
       /\ frames' = [frames EXCEPT ![w] = r.f]
       /\ caches' = [caches EXCEPT ![r.f.cache] = r.c]
  /\ \E t \in {SumStep(alone[w].f, alone[w].c)} : alone' = [alone EXCEPT ![w] = t]
  /\ UNCHANGED pool

Begin(w) == Take(w, "begin")
Expand(w) == Take(w, "expand")
InitChunk(w) == Take(w, "init")
MixSetup(w) == Take(w, "mixsetup")
MixA(w) == Take(w, "mixA")
MixB(w) == Take(w, "mixB")
MixC(w) == Take(w, "mixC")
CompSetup(w) == Take(w, "compsetup")
CompChunk(w) == Take(w, "comp")
Copy(w) == Take(w, "copy")
Finish(w) == Take(w, "finish")

\* Worker w calls cache.Sum(data, variant) on the Cache it owns.
CacheSum(w, data, variant) ==
  /\ frames[w].pc = "idle"
  /\ frames[w].held = 0
  /\ frames' = [frames EXCEPT ![w] = EntryFrame(w, data, variant, OwnCache(w), 0)]
  /\ alone' = [alone EXCEPT ![w] = AloneEntry(data, variant)]
  /\ UNCHANGED <<caches, pool>>

\* Worker w calls the package-level Sum: new(Cache).Sum(data, variant).
Sum(w, data, variant) ==
  /\ frames[w].pc = "idle"
  /\ frames[w].held = 0
  /\ frames' = [frames EXCEPT ![w] = EntryFrame(w, data, variant, TempCache(w), 0)]
  /\ caches' = [id \in DOMAIN caches \cup {TempCache(w)} |->
                  IF id = TempCache(w) THEN ZeroCache ELSE caches[id]]
  /\ alone' = [alone EXCEPT ![w] = AloneEntry(data, variant)]
  /\ UNCHANGED pool

\* The Caches that are still referenced once worker w's Sum has returned:
\* the new(Cache) of a package-level Sum is garbage.
Live(w) == DOMAIN caches \ ({frames[w].cache} \ ({OwnCache(w)} \cup PoolCaches))

\* Sum returns its digest to w's caller.
Return(w) ==
  /\ frames[w].pc = "done"
  /\ frames' = [frames EXCEPT ![w] = IdleFrame(frames[w].held, frames[w].calls)]
  /\ caches' = [id \in Live(w) |-> caches[id]]
  /\ alone' = [alone EXCEPT ![w] = AloneIdle]
  /\ UNCHANGED pool

\* The panic of data[35:43] unwinds Sum and w's caller recovers from it.
Recover(w) ==
  /\ frames[w].pc = "panicked"
  /\ frames' = [frames EXCEPT ![w] = IdleFrame(frames[w].held, frames[w].calls)]
  /\ caches' = [id \in Live(w) |-> caches[id]]
  /\ alone' = [alone EXCEPT ![w] = AloneIdle]
  /\ UNCHANGED pool

\* cachePool.Get(): a Cache of the pool, which leaves the pool, or a
\* new(Cache) from cachePool.New, named by the least unused identity.
PoolGet(id, isNew) ==
  /\ IF isNew
       THEN id \notin DOMAIN caches /\ \A k \in PoolCaches \ DOMAIN caches : id <= k
     ELSE id \in pool
  /\ pool' = pool \ {id}
  /\ caches' = [k \in DOMAIN caches \cup {id} |->
                  IF k \in DOMAIN caches THEN caches[k] ELSE ZeroCache]

\* Worker w checks a Cache out of the pool and calls its Sum.
PoolSum(w, data, variant) ==
  /\ frames[w].pc = "idle"
  /\ frames[w].held = 0
  /\ \E id \in PoolCaches, isNew \in BOOLEAN :
       /\ PoolGet(id, isNew)
       /\ frames' = [frames EXCEPT ![w] = EntryFrame(w, data, variant, id, id)]
  /\ alone' = [alone EXCEPT ![w] = AloneEntry(data, variant)]

\* cachePool.Put(cache) after Sum has returned.
PoolPut(w) ==
  /\ frames[w].pc = "idle"
  /\ frames[w].held # 0
  /\ pool' = pool \cup {frames[w].held}
  /\ frames' = [frames EXCEPT ![w] = IdleFrame(0, frames[w].calls)]
  /\ UNCHANGED <<caches, alone>>

\* ----------------------------------------------------------- specifications

InitFor(W) ==
  /\ frames = [w \in W |-> IdleFrame(0, 0)]
  /\ caches = [id \in {OwnCache(w) : w \in W} |-> ZeroCache]
  /\ pool = {}
  /\ alone = [w \in W |-> AloneIdle]

Init == InitFor(Workers)

\* The steps of a Sum in flight, its return and its panic.
Step(w) ==
  \/ Begin(w)
  \/ Expand(w)
  \/ InitChunk(w)
  \/ MixSetup(w)
  \/ MixA(w)
  \/ MixB(w)
  \/ MixC(w)
  \/ CompSetup(w)
  \/ CompChunk(w)
  \/ Copy(w)
  \/ Finish(w)
  \/ Return(w)
  \/ Recover(w)

\* One caller: Sum on its own, reused Cache and the package-level Sum.
Next ==
  \E w \in DOMAIN frames :
    \/ \E data \in Messages, variant \in Variants : CacheSum(w, data, variant)
    \/ \E data \in Messages, variant \in Variants : Sum(w, data, variant)
    \/ Step(w)

Spec == Init /\ [][Next]_vars

\* A caller that keeps calling the package-level Sum, each call on a
\* new(Cache), and is scheduled for as long as it can take a step.
FairNext ==
  \E w \in DOMAIN frames :
    \/ \E data \in Messages, variant \in Variants : Sum(w, data, variant)
    \/ Step(w)

FairSpec == Init /\ [][FairNext]_vars /\ WF_vars(FairNext)

\* What the concurrent worker w hashes.
ConcData(w) == IF w = 1 THEN MkData(Variant1Bytes, 46) ELSE MkData(HelloBytes, 13)
ConcVariant(w) == IF w = 1 THEN 1 ELSE 0

ConcInit == InitFor(ConcWorkers)

\* Concurrent workers, each making MaxCalls calls of Sum: on its own Cache,
\* by the package-level Sum, or on a Cache of the pool; their steps
\* interleave.
ConcNext ==
  \E w \in DOMAIN frames :
    \/ /\ frames[w].calls < MaxCalls
       /\ \/ CacheSum(w, ConcData(w), ConcVariant(w))
          \/ Sum(w, ConcData(w), ConcVariant(w))
          \/ PoolSum(w, ConcData(w), ConcVariant(w))
    \/ PoolPut(w)
    \/ Step(w)

ConcSpec == ConcInit /\ [][ConcNext]_vars

\* [f, c] after Sum has run from [f, c] up to its step at pc.
RECURSIVE RunUntil(_, _)
RunUntil(fc, pc) ==
  IF fc.f.pc = pc THEN fc
  ELSE Bind(SumStep(fc.f, fc.c), LAMBDA next : RunUntil(next, pc))

\* Values of the three bytes of a register that TO_ADDR reads.
AddrBytes == {0, 15, 240, 255}

\* The register a with its bytes 0 .. 2 replaced.
WithLowBytes(a, a0, a1, a2) ==
  [k \in 0 .. 15 |-> IF k = 0 THEN a0 ELSE IF k = 1 THEN a1 ELSE IF k = 2 THEN a2 ELSE a[k]]

\* Sum at the head of the memory-hard loop, the initializer through, with
\* any value of the address bytes in register a.
AddrInit ==
  \E variant \in {0, 1} :
    \E r \in {RunUntil(AloneEntry(MkData(Variant1Bytes, 46), variant), "mixA")} :
      \E a0 \in AddrBytes, a1 \in AddrBytes, a2 \in AddrBytes :
        \E f \in {[r.f EXCEPT !.a = WithLowBytes(r.f.a, a0, a1, a2)]} :
          /\ frames = [w \in Workers |-> [f EXCEPT !.cache = OwnCache(w)]]
          /\ caches = [id \in {OwnCache(w) : w \in Workers} |-> r.c]
          /\ pool = {}
          /\ alone = [w \in Workers |-> [f |-> f, c |-> r.c]]

\* The iterations of the memory-hard loop.
AddrNext ==
  \E w \in DOMAIN frames :
    \/ MixA(w)
    \/ MixB(w)
    \/ MixC(w)

AddrSpec == AddrInit /\ [][AddrNext]_vars

\* ------------------------------------------------------------ properties

CacheOf(w) == caches[frames[w].cache]

\* The steps of Sum after the initializer has written the whole scratchpad.
AfterInit == {"mixsetup", "mixA", "mixB", "mixC", "compsetup", "comp", "copy",
              "finish", "done"}

\* C1: whatever the Cache held when Sum was called, once the initializer is
\* through the Cache holds what a new(Cache) holds at the same point of the
\* same call, and the digest Sum returns is the digest the same call returns
\* on a new(Cache).
SumIsCacheIndependent ==
  \A w \in DOMAIN frames :
    /\ frames[w].pc \in AfterInit => CacheOf(w) = alone[w].c
    /\ frames[w].pc = "done" => frames[w].digest = alone[w].f.digest

\* A Sum that began on a Cache an earlier Sum had left dirty has returned.
ReusedCacheReturned ==
  \E w \in DOMAIN frames :
    /\ frames[w].pc = "done"
    /\ frames[w].reused
    /\ frames[w].digest # NoDigest

\* C2: a call of variant 1 with fewer than 43 bytes of data never gets past
\* the derivation of the tweak: it panics and returns no digest.
ShortVariant1Panics ==
  \A w \in DOMAIN frames :
    (frames[w].variant = 1 /\ frames[w].data.len < MinVariant1Len)
      => frames[w].pc \in {"begin", "panicked"}

\* C3: every step of a Sum with variant >= 2 changes the frame and the Cache
\* exactly as the step of a Sum with variant 0 does from the same frame and
\* Cache: the same State and scratchpad updates, a zero tweak, the same digest.
HighVariantStepsAsVariant0 ==
  [][\A w \in DOMAIN frames :
       (frames[w].pc \in Running /\ frames[w].variant >= 2 /\ frames'[w] # frames[w])
         => \E r \in {SumStep([frames[w] EXCEPT !.variant = 0], CacheOf(w))} :
              /\ frames'[w] = [r.f EXCEPT !.variant = frames[w].variant]
              /\ caches'[frames[w].cache] = r.c]_vars

\* A Sum with variant >= 2 has run the mixer and returned its digest.
HighVariantReturned ==
  \E w \in DOMAIN frames :
    /\ frames[w].pc = "done"
    /\ frames[w].variant >= 2
    /\ frames[w].nMix = MixRounds
    /\ frames[w].digest # NoDigest

\* The steps of Sum between the Keccak absorb and the final copy.
AbsorbedUntilCopy == {"expand", "init", "mixsetup", "mixA", "mixB", "mixC",
                      "compsetup", "comp", "copy"}

\* C10: from the end of the absorb until the compressor's final copy the
\* State holds the bytes the absorb of data produced: the initializer, the
\* mixer and the compressor's loop write none of its 200 bytes.
StateKeptUntilCopy ==
  \A w \in DOMAIN frames :
    frames[w].pc \in AbsorbedUntilCopy
      => CacheOf(w).finalState = Keccak1600State(DataBytes(frames[w].data))

\* The compressor's loop is through and the final copy is the next step.
BeforeFinalCopy ==
  \E w \in DOMAIN frames :
    /\ frames[w].pc = "copy"
    /\ frames[w].nInit = PadChunks
    /\ frames[w].nMix = MixRounds
    /\ frames[w].nComp = PadChunks

\* The hash the switch on the selector sel constructs.
FinalizerOf(sel) ==
  CASE sel = 0 -> "blake256"
    [] sel = 1 -> "groestl256"
    [] sel = 2 -> "jh256"
    [] sel = 3 -> "skein256"

\* The last 128-byte chunk of a scratchpad.
LastChunk(pad) == Slice(pad, PadSize - ChunkSize, PadSize)

\* C6: the step that returns the digest starts from a State whose bytes
\* 64 .. 191 are the compressor's last chunk (the copy is done), permutes
\* it, and returns the hash of all 200 permuted bytes by the function that
\* byte 0 of the permuted State, masked with 3, selects: 0 BLAKE-256,
\* 1 Groestl-256, 2 JH-256, 3 Skein-256.
FinalizerAfterPermutation ==
  [][\A w \in DOMAIN frames :
       (frames[w].pc = "finish" /\ frames'[w].pc = "done")
         => /\ Slice(CacheOf(w).finalState, 64, 192) = LastChunk(CacheOf(w).scratchpad)
            /\ \E p \in {Keccak1600Permute(CacheOf(w).finalState)} :
                 /\ caches'[frames[w].cache].finalState = p
                 /\ Len0(p) = StateSize
                 /\ frames'[w].digest = Hash256(FinalizerOf(p[0] % 4), p)]_vars

\* Sum has returned the digest of a finalizer other than the one selector 0
\* names, the one byte 0 of the State it leaves selects.
FinalizerChosen ==
  \E w \in DOMAIN frames :
    /\ frames[w].pc = "done"
    /\ frames[w].digest # NoDigest
    /\ frames[w].digest[1] = FinalizerOf(CacheOf(w).finalState[0] % 4)
    /\ frames[w].digest[1] # "blake256"

\* C9: a pass of the compressor's loop at offset j leaves the State alone
\* and rewrites chunk j only, with the encryption under the round keys of
\* State[32:64) of chunk j XORed with State[64:192) when j = 0 and with
\* chunk j - 128, which the pass before encrypted, otherwise; the passes go
\* up by 128 from 0; and the copy that follows the last pass makes
\* State[64:192) the last chunk of the scratchpad.
CompressorChainsChunks ==
  [][\A w \in DOMAIN frames :
       /\ (frames[w].pc = "compsetup" /\ frames'[w] # frames[w]) => frames'[w].j = 0
       /\ (frames[w].pc = "comp" /\ frames'[w] # frames[w])
            => \E j \in {frames[w].j}, st \in {CacheOf(w).finalState},
                  pad \in {CacheOf(w).scratchpad} :
                 \E prev \in {IF j = 0 THEN Slice(st, 64, 192)
                              ELSE Slice(pad, j - ChunkSize, j)} :
                   /\ caches'[frames[w].cache].finalState = st
                   /\ caches'[frames[w].cache].scratchpad =
                        Patch(pad, j,
                              EncryptChunk(xorWords(Slice(pad, j, j + ChunkSize), prev),
                                           CnExpandKey(Slice(st, 32, 64))))
                   /\ frames'[w].j = j + ChunkSize
                   /\ frames'[w].pc = IF j + ChunkSize < PadSize THEN "comp" ELSE "copy"
       /\ (frames[w].pc = "copy" /\ frames'[w] # frames[w])
            => /\ caches'[frames[w].cache].scratchpad = CacheOf(w).scratchpad
               /\ Slice(caches'[frames[w].cache].finalState, 64, 192)
                    = LastChunk(CacheOf(w).scratchpad)
               /\ Slice(caches'[frames[w].cache].finalState, 0, 64)
                    = Slice(CacheOf(w).finalState, 0, 64)
               /\ Slice(caches'[frames[w].cache].finalState, 192, StateSize)
                    = Slice(CacheOf(w).finalState, 192, StateSize)]_vars

\* The compressor has gone over every chunk and the copy has been made.
CompressorDone ==
  \E w \in DOMAIN frames :
    /\ frames[w].pc = "finish"
    /\ frames[w].nComp = PadChunks
    /\ PadChunks > 1
    /\ Slice(CacheOf(w).finalState, 64, 192) = LastChunk(CacheOf(w).scratchpad)

\* The bytes lo .. lo + n - 1 of x as an unsigned integer, n <= 3.
Limb(x, lo, n) ==
  x[lo] + (IF n > 1 THEN 256 * x[lo + 1] ELSE 0) + (IF n > 2 THEN 65536 * x[lo + 2] ELSE 0)

\* z = (x + y) mod 2^64 for the little-endian uint64 x, y, z, stated on the
\* limbs of bytes 0 .. 2, 3 .. 5 and 6 .. 7.
IsSum64(x, y, z) ==
  \E s0 \in {Limb(x, 0, 3) + Limb(y, 0, 3)} :
    \E s1 \in {Limb(x, 3, 3) + Limb(y, 3, 3) + (s0 \div 16777216)} :
      \E s2 \in {Limb(x, 6, 2) + Limb(y, 6, 2) + (s1 \div 16777216)} :
        /\ Limb(z, 0, 3) = s0 % 16777216
        /\ Limb(z, 3, 3) = s1 % 16777216
        /\ Limb(z, 6, 2) = s2 % 65536

\* x + y >= 2^64: the uint64 sum z = x + y wrapped around.
Wrapped(y, z) ==
  \/ Limb(z, 6, 2) < Limb(y, 6, 2)
  \/ Limb(z, 6, 2) = Limb(y, 6, 2) /\ Limb(z, 3, 3) < Limb(y, 3, 3)
  \/ Limb(z, 6, 2) = Limb(y, 6, 2) /\ Limb(z, 3, 3) = Limb(y, 3, 3)
       /\ Limb(z, 0, 3) < Limb(y, 0, 3)

\* C8: the step of the mixer that adds the product to a leaves, in each
\* lane k of a, (a[k] + product[k]) mod 2^64: lane 1 takes no carry from
\* lane 0.
LaneWiseAdd ==
  [][\A w \in DOMAIN frames :
       (frames[w].pc = "mixB" /\ frames'[w].pc = "mixC")
         => \A k \in {0, 1} :
              IsSum64(Lane(frames[w].a, k), Lane(frames'[w].product, k),
                      Lane(frames'[w].a, k))]_vars

\* The addition in lane 0 has wrapped around, and the one in lane 1 has not.
Lane0Wrapped ==
  \E w \in DOMAIN frames :
    /\ frames[w].pc = "mixC"
    /\ Wrapped(Lane(frames[w].product, 0), Lane(frames[w].a, 0))
    /\ ~Wrapped(Lane(frames[w].product, 1), Lane(frames[w].a, 1))

\* C5: no two Sums in flight work on the same Cache, and each Sum that
\* returns, returns the digest the same call returns when it runs alone.
ConcurrentSumsIsolated ==
  /\ \A w1, w2 \in DOMAIN frames :
       (w1 # w2 /\ frames[w1].pc \in Running /\ frames[w2].pc \in Running)
         => frames[w1].cache # frames[w2].cache
  /\ \A w \in DOMAIN frames :
       frames[w].pc = "done" => frames[w].digest = alone[w].f.digest

\* Two Sums are in the mixer at once, each on a Cache of the pool.
TwoPooledSumsInFlight ==
  \E w1, w2 \in DOMAIN frames :
    /\ w1 # w2
    /\ frames[w1].pc \in {"mixA", "mixB", "mixC"}
    /\ frames[w2].pc \in {"mixA", "mixB", "mixC"}
    /\ frames[w1].held # 0
    /\ frames[w2].held # 0

\* C7: the three loops leave with exactly ScratchpadSize / 128 = 2^14
\* initializer passes, as many mixer iterations as the loop's bound
\* (2^19 in the program) whatever the variant, and 2^14 compressor passes;
\* and a Sum whose data satisfies the variant-1 length precondition returns.
SumTerminates ==
  /\ ScratchpadSize \div ChunkSize = 2 ^ 14
  /\ MixIterations = 2 ^ 19
  /\ [](\A w \in Workers :
          /\ frames[w].pc = "mixsetup" => frames[w].nInit = PadChunks
          /\ frames[w].pc = "compsetup" => frames[w].nMix = MixRounds
          /\ frames[w].pc \in {"copy", "finish", "done"}
               => /\ frames[w].nInit = PadChunks
                  /\ frames[w].nMix = MixRounds
                  /\ frames[w].nComp = PadChunks)
  /\ \A w \in Workers :
       (frames[w].pc = "begin"
          /\ (frames[w].variant = 1 => frames[w].data.len >= MinVariant1Len))
         ~> frames[w].pc = "done"

\* A Sum of variant 1 has returned, its tweak loop having run in every
\* iteration of the mixer.
Variant1Returned ==
  \E w \in DOMAIN frames :
    /\ frames[w].pc = "done"
    /\ frames[w].variant = 1
    /\ frames[w].nMix = MixRounds
    /\ MixRounds > 1

\* C4: the address TO_ADDR derives from register a and from register c is
\* a multiple of 16 below 2^21 = len(scratchpad), so the sixteen bytes
\* addr .. addr + 15 an iteration touches through it, addr + 11 and
\* addr + 8 + i for i < 8 among them, are bytes of the scratchpad.
AddressInScratchpad ==
  /\ ScratchpadSize = 2 ^ 21
  /\ \A w \in DOMAIN frames :
       frames[w].pc \in {"mixB", "mixC"}
         => /\ frames[w].addr % BlockSize = 0
            /\ frames[w].addr >= 0
            /\ frames[w].addr + 11 < ScratchpadSize
            /\ \A i \in 0 .. 7 : frames[w].addr + 8 + i < ScratchpadSize
            /\ frames[w].addr + BlockSize <= ScratchpadSize
            /\ PadIndex(frames[w].addr) + BlockSize <= PadSize

\* TO_ADDR has derived the highest address there is, 2^21 - 16, from a
\* register whose three address bytes are all 255.
TopAddressDerived ==
  \E w \in DOMAIN frames :
    /\ frames[w].pc = "mixB"
    /\ frames[w].addr = ScratchpadSize - BlockSize
====
